---- MODULE Spec2Model ----
(***************************************************************************)
(* The probe relay of the URL monitor: the POST /api/check handler of      *)
(* src/server.js (V2.3) and of src/unnamed/part_000 (V3.0, the single-file *)
(* edition).  One handler run is a sequence of segments separated by its   *)
(* awaits (the submission call, the delays, the poll calls); each segment  *)
(* is one action.  The upstream service (check-host.net) is the            *)
(* environment: what a call returns or throws is chosen nondeterministically.*)
(***************************************************************************)
EXTENDS Integers, Sequences, FiniteSets, TLC

(***************************************************************************)
(* JavaScript values.  Every value is a record whose field names give its  *)
(* type, so values of different types are unequal (never an error).        *)
(* Numbers are reduced fractions num/den with den > 0.                     *)
(***************************************************************************)
Undefined == [undef |-> TRUE]
Null == [null |-> TRUE]
NaN == [nan |-> TRUE]
Bool(b) == [bool |-> b]
Str(s) == [str |-> s]
Num(n) == [num |-> n, den |-> 1]
Frac(n, d) == [num |-> n, den |-> d]
Arr(s) == [arr |-> s]
Obj(f) == [obj |-> f]
\* A built-in function object, such as Object.prototype.toString.
Fn(name) == [fn |-> name]

IsUndefined(v) == "undef" \in DOMAIN v
IsNull(v) == "null" \in DOMAIN v
IsNaN(v) == "nan" \in DOMAIN v
IsBool(v) == "bool" \in DOMAIN v
IsStr(v) == "str" \in DOMAIN v
IsNum(v) == "num" \in DOMAIN v
IsArr(v) == "arr" \in DOMAIN v
IsObj(v) == "obj" \in DOMAIN v
IsFn(v) == "fn" \in DOMAIN v
IsNullish(v) == IsUndefined(v) \/ IsNull(v)

\* ToBoolean: the test made by !v, v || w, v && w and if (v).
Truthy(v) ==
    CASE IsUndefined(v) -> FALSE
      [] IsNull(v) -> FALSE
      [] IsNaN(v) -> FALSE
      [] IsBool(v) -> v.bool
      [] IsStr(v) -> v.str # ""
      [] IsNum(v) -> v.num # 0
      [] OTHER -> TRUE

\* v || w
Or(v, w) == IF Truthy(v) THEN v ELSE w

\* v[k] for a value that is not null or undefined (on those it throws a
\* TypeError, which the callers test with IsNullish before reading).
Get(v, k) ==
    IF IsObj(v) /\ k \in DOMAIN v.obj THEN v.obj[k] ELSE Undefined

\* a[i] with a zero-based index i.
At(v, i) ==
    IF IsArr(v) /\ i + 1 \in DOMAIN v.arr THEN v.arr[i + 1] ELSE Undefined

Digits == <<"0", "1", "2", "3", "4", "5", "6", "7", "8", "9">>
IsDigit(c) == \E i \in 1..10 : Digits[i] = c
DigitVal(c) == (CHOOSE i \in 1..10 : Digits[i] = c) - 1

RECURSIVE NatToString(_)
NatToString(n) ==
    IF n < 10 THEN Digits[n + 1]
    ELSE NatToString(n \div 10) \o Digits[(n % 10) + 1]

\* String(v), as a template literal converts its substitutions.
StringOf(v) ==
    CASE IsStr(v) -> v.str
      [] IsUndefined(v) -> "undefined"
      [] IsNull(v) -> "null"
      [] IsNaN(v) -> "NaN"
      [] IsBool(v) -> IF v.bool THEN "true" ELSE "false"
      [] IsFn(v) -> "function " \o v.fn \o "() { [native code] }"
      [] IsNum(v) /\ v.den = 1 ->
            IF v.num < 0 THEN "-" \o NatToString(-v.num) ELSE NatToString(v.num)
      [] OTHER -> "[object Object]"

IsSpace(c) == c \in {" ", "\t", "\n"}
Char(s, i) == SubSeq(s, i, i)

\* The index of the first character of s at or after i that is no white space.
RECURSIVE SkipSpaces(_, _)
SkipSpaces(s, i) ==
    IF i <= Len(s) /\ IsSpace(Char(s, i)) THEN SkipSpaces(s, i + 1) ELSE i

\* The index after the run of digits of s that starts at i.
RECURSIVE DigitsEnd(_, _)
DigitsEnd(s, i) ==
    IF i <= Len(s) /\ IsDigit(Char(s, i)) THEN DigitsEnd(s, i + 1) ELSE i

\* The value of the digits s[i..j-1], most significant first.
RECURSIVE DigitsValue(_, _, _)
DigitsValue(s, i, j) ==
    IF j <= i THEN 0
    ELSE 10 * DigitsValue(s, i, j - 1) + DigitVal(Char(s, j - 1))

RECURSIVE Pow10(_)
Pow10(k) == IF k = 0 THEN 1 ELSE 10 * Pow10(k - 1)

RECURSIVE Gcd(_, _)
Gcd(a, b) == IF b = 0 THEN a ELSE Gcd(b, a % b)

Abs(n) == IF n < 0 THEN -n ELSE n

\* The number n/d (d > 0) as a reduced fraction.
Reduced(n, d) ==
    LET g == Gcd(Abs(n), d) IN Frac(n \div g, d \div g)

\* parseInt(v) in radix 10: the argument as a string, leading white space
\* skipped, an optional sign, then the longest run of digits; NaN without one.
ParseInt(v) ==
    LET s == StringOf(v)
        i == SkipSpaces(s, 1)
        neg == i <= Len(s) /\ Char(s, i) = "-"
        signed == i <= Len(s) /\ Char(s, i) \in {"-", "+"}
        from == IF signed THEN i + 1 ELSE i
        to == DigitsEnd(s, from)
        n == DigitsValue(s, from, to)
    IN  IF to = from THEN NaN ELSE Num(IF neg THEN -n ELSE n)

\* Number(s) for a string: white space trimmed, "" is 0, an optionally signed
\* decimal literal (digits, or digits "." digits) is its value, else NaN.
StringToNumber(s) ==
    LET i == SkipSpaces(s, 1)
        neg == i <= Len(s) /\ Char(s, i) = "-"
        signed == i <= Len(s) /\ Char(s, i) \in {"-", "+"}
        from == IF signed THEN i + 1 ELSE i
        to == DigitsEnd(s, from)
        dot == to <= Len(s) /\ Char(s, to) = "."
        ffrom == IF dot THEN to + 1 ELSE to
        fto == IF dot THEN DigitsEnd(s, ffrom) ELSE to
        rest == SkipSpaces(s, fto)
        whole == DigitsValue(s, from, to)
        frac == DigitsValue(s, ffrom, fto)
        den == Pow10(fto - ffrom)
        mag == whole * den + frac
    IN  IF i > Len(s) THEN Num(0)
        ELSE IF rest <= Len(s) \/ (to = from /\ fto = ffrom) THEN NaN
        ELSE Reduced(IF neg THEN -mag ELSE mag, den)

\* Number(v), as the operator * converts its operands.  Arrays and objects
\* other than the empty array convert to NaN here.
ToNumber(v) ==
    CASE IsNum(v) -> v
      [] IsNaN(v) -> NaN
      [] IsBool(v) -> IF v.bool THEN Num(1) ELSE Num(0)
      [] IsNull(v) -> Num(0)
      [] IsUndefined(v) -> NaN
      [] IsStr(v) -> StringToNumber(v.str)
      [] IsArr(v) /\ v.arr = <<>> -> Num(0)
      [] OTHER -> NaN

\* v * w
Times(v, w) ==
    LET a == ToNumber(v)
        b == ToNumber(w)
    IN  IF IsNaN(a) \/ IsNaN(b) THEN NaN
        ELSE Reduced(a.num * b.num, a.den * b.den)

\* Mutant of MathRound: Math.floor.
MathRound_floor(v) ==
    LET a == ToNumber(v)
    IN  IF IsNaN(a) THEN NaN
        ELSE Num(a.num \div a.den)

\* Math.round(v): the integer nearest to v, a half rounding up.
MathRound(v) ==
    LET a == ToNumber(v)
    IN  IF IsNaN(a) THEN NaN
        ELSE Num((2 * a.num + a.den) \div (2 * a.den))

\* Mutant of StrictEquals: v == w, which converts operands of different types
\* to numbers.
StrictEquals_loose(v, w) ==
    IF DOMAIN v = DOMAIN w THEN ~IsNaN(v) /\ v = w
    ELSE /\ ~IsUndefined(v) /\ ~IsNull(v) /\ ~IsUndefined(w) /\ ~IsNull(w)
         /\ ~IsNaN(ToNumber(v))
         /\ ToNumber(v) = ToNumber(w)

\* v === w for the values compared in the code (a number or a string with
\* anything): same type and same value; NaN equals nothing.
StrictEquals(v, w) == ~IsNaN(v) /\ v = w

\* What res.json sends: JSON.stringify drops the undefined properties and
\* writes NaN as null.
Json(o) ==
    LET present == {k \in DOMAIN o : ~IsUndefined(o[k])}
    IN  [k \in present |-> IF IsNaN(o[k]) THEN Null ELSE o[k]]

(***************************************************************************)
(* Configuration.  The two source files hold two builds of the relay; a    *)
(* run is a run of one of them.                                            *)
(***************************************************************************)
Builds == {"server.js", "part_000"}

CHECK_HOST_BASE_URL == "https://check-host.net"
DEFAULT_NODE_ID == "sg1.node.check-host.net"
\* Another node of the upstream service, never asked for.
OTHER_NODE_ID == "ny1.node.check-host.net"

\* The own properties of the endpoint map of build b.
METHOD_ENDPOINT_MAP(b) ==
    IF b = "server.js"
    THEN [http |-> "check-http", ping |-> "check-ping", tcp |-> "check-tcp",
          udp |-> "check-udp", dns |-> "check-dns", whois |-> "check-whois"]
    ELSE [http |-> "check-http", ping |-> "check-ping", tcp |-> "check-tcp",
          dns |-> "check-dns", whois |-> "check-whois"]

\* Properties every object literal inherits from Object.prototype (some of
\* them): a property read finds them when the object has no own property of
\* that name.
ObjectPrototypeKeys == {"constructor", "toString", "valueOf", "hasOwnProperty"}

maxAttempts == 6
SUBMIT_TIMEOUT_MS == 8000
POLL_TIMEOUT_MS == 5000
INITIAL_DELAY_MS == 2500
ATTEMPT_DELAY_MS == 1500

(***************************************************************************)
(* Inputs: the request bodies a caller can post and what the upstream can  *)
(* answer.                                                                 *)
(***************************************************************************)
Reqs == {"r1", "r2"}

Urls == {Undefined, Str(""), Str("example.com")}
Methods ==
    {Undefined, Str("")} \cup
    {Str(m) : m \in {"http", "ping", "tcp", "udp", "dns", "whois", "ftp", "constructor"}}
Bodies == [url : Urls, method : Methods]

\* The body of the submission response: {ok, request_id?, message?}, a body
\* that is no JSON object (a string), or the JSON value null.
StartObjects ==
    {Obj(o) : o \in [ok : {Num(1), Num(0), Str("1")},
                     request_id : {Undefined, Str(""), Str("abc123"), Str("def456")},
                     message : {Undefined, Str(""), Str("limit exceeded")}]}
StartData == StartObjects \cup {Obj([message |-> Str("no ok")]), Str("<html>"), Null}

\* Result records [upFlag, latencySeconds, message, statusCodeRaw, ...].
ResultTuples ==
    { Arr(<<Num(1), Frac(7, 20), Str("OK"), Str("200")>>),
      Arr(<<Num(0), Num(0), Str("Host unreachable"), Str("0")>>),
      Arr(<<Num(0), Frac(7, 100), Str("No such device or address"), Null, Null>>),
      Arr(<<Num(2), Frac(2469, 2000), Str("Moved"), Str("301")>>),
      Arr(<<Bool(TRUE), Frac(1, 2), Str("Not Found"), Str("404 Not Found")>>),
      Arr(<<Str("1"), Frac(-1, 4), Str("OK"), Str("abc")>>),
      Arr(<<Num(1), Str("fast"), Str("OK"), Str("599")>>),
      Arr(<<Num(1), Frac(1, 2000), Undefined, Num(200)>>),
      Arr(<<>>) }

\* A first element that is no tuple: the record of a DNS check.
DnsRecord == Obj([A |-> Arr(<<Str("93.184.216.34")>>), TTL |-> Num(300)])

\* The body of a poll response: a mapping from node id to an array of result
\* records, the entry absent, null or empty while the result is not ready.
PollData ==
    { Obj(<<>>),
      Obj([n \in {DEFAULT_NODE_ID} |-> Null]),
      Obj([n \in {DEFAULT_NODE_ID} |-> Arr(<<>>)]),
      Obj([n \in {DEFAULT_NODE_ID} |-> Arr(<<Null>>)]),
      Obj([n \in {DEFAULT_NODE_ID} |-> Arr(<<DnsRecord>>)]),
      Str("<html>"),
      Null }
    \cup {Obj([n \in {OTHER_NODE_ID} |-> Arr(<<t>>)]) : t \in ResultTuples}
    \cup {Obj([n \in {DEFAULT_NODE_ID} |-> Arr(<<t>>)]) : t \in ResultTuples}

\* What axios.get rejects with: a timeout of the call, a connection that
\* times out or is refused, a response with an error status.
AxiosErrors(timeout) ==
    { [code |-> Str("ECONNABORTED"),
       message |-> Str("timeout of " \o NatToString(timeout) \o "ms exceeded")],
      [code |-> Str("ETIMEDOUT"), message |-> Str("connect ETIMEDOUT")],
      [code |-> Str("ECONNREFUSED"), message |-> Str("connect ECONNREFUSED")],
      [code |-> Str("ERR_BAD_REQUEST"),
       message |-> Str("Request failed with status code 429")] }

\* The TypeError of reading a property of null, or of destructuring a value
\* that is not iterable.
TypeError(what) == [code |-> Undefined, message |-> Str(what)]

(***************************************************************************)
(* The handler's tests and the payloads it sends.                          *)
(***************************************************************************)
\* if (!url || !method)
MissingField(url, method) == ~Truthy(url) \/ ~Truthy(method)

\* METHOD_ENDPOINT_MAP[method]: an own property of the map, else a property
\* inherited from Object.prototype, else undefined.
EndpointOf(b, method) ==
    LET key == StringOf(method)
    IN  IF key \in DOMAIN METHOD_ENDPOINT_MAP(b) THEN Str(METHOD_ENDPOINT_MAP(b)[key])
        ELSE IF key \in ObjectPrototypeKeys
             THEN Fn(IF key = "constructor" THEN "Object" ELSE key)
        ELSE Undefined

\* Mutant of Acknowledged: the request_id is not tested.
Acknowledged_okOnly(data) == StrictEquals(Get(data, "ok"), Num(1))

\* The negation of: startResponse.data.ok !== 1 || !startResponse.data.request_id
Acknowledged(data) ==
    StrictEquals(Get(data, "ok"), Num(1)) /\ Truthy(Get(data, "request_id"))

\* Mutant of IsImmediateEndpoint: check-dns is forgotten.
IsImmediateEndpoint_whoisOnly(endpoint) == StrictEquals(endpoint, Str("check-whois"))

\* apiEndpoint === 'check-whois' || apiEndpoint === 'check-dns'
IsImmediateEndpoint(endpoint) ==
    StrictEquals(endpoint, Str("check-whois")) \/ StrictEquals(endpoint, Str("check-dns"))

CheckUrl(endpoint, url) ==
    CHECK_HOST_BASE_URL \o "/" \o StringOf(endpoint) \o "?host=" \o StringOf(url)
        \o "&node=" \o DEFAULT_NODE_ID

\* Mutant of ResultUrl: the address is built without the id.
ResultUrl_noId(rid) == CHECK_HOST_BASE_URL \o "/check-result/"

ResultUrl(rid) == CHECK_HOST_BASE_URL \o "/check-result/" \o StringOf(rid)

\* Mutant of LoopContinues: the bound is off by one.
LoopContinues_offByOne(result, att) == ~Truthy(result) /\ att <= maxAttempts

\* while (!checkResult && attempt < maxAttempts)
LoopContinues(result, att) == ~Truthy(result) /\ att < maxAttempts

\* Mutant of NodeResult: the record of any node is taken.
NodeResult_anyNode(data) ==
    IF IsObj(data) /\ DOMAIN data.obj # {}
    THEN data.obj[CHOOSE n \in DOMAIN data.obj : TRUE] ELSE Undefined

\* resultResponse.data[node_id]
NodeResult(data) ==
    IF IsObj(data) /\ DEFAULT_NODE_ID \in DOMAIN data.obj
    THEN data.obj[DEFAULT_NODE_ID] ELSE Undefined

\* if (nodeResult && nodeResult[0])
HasResult(nodeResult) == Truthy(nodeResult) /\ Truthy(At(nodeResult, 0))

\* Array destructuring needs an iterable.
IsIterable(v) == IsArr(v) \/ IsStr(v)

\* Mutant of CheckHostMessage: no default text.
CheckHostMessage_noDefault(b, data) == Get(data, "message")

\* startResponse.data.message || <the build's default text>
CheckHostMessage(b, data) ==
    Or(Get(data, "message"),
       Str(IF b = "server.js" THEN "Data received."
           ELSE "No specific error message provided by Check-Host."))

MissingFieldPayload == [error |-> Str("URL and Method are required.")]

UnsupportedPayload(method) ==
    [isBackendError |-> Bool(TRUE),
     errorDetail |-> Str("Unsupported method: " \o StringOf(method) \o "."),
     statusCode |-> Num(0)]

InitialResultPayload(b, method, data) ==
    [isUp |-> Bool(TRUE),
     latency |-> Num(0),
     statusCode |-> Num(200),
     message |-> Str("Initial result for " \o StringOf(method) \o ": "
                        \o StringOf(CheckHostMessage(b, data)))]

RejectedPayload(b, method, data) ==
    [isBackendError |-> Bool(TRUE),
     errorDetail |->
        Str("Check-Host API rejected the request for method " \o StringOf(method) \o "."
            \o (IF b = "server.js" THEN ""
                ELSE " Message: " \o StringOf(CheckHostMessage(b, data)))),
     statusCode |-> Num(0)]

ExhaustedPayload(method) ==
    [latency |-> Num(6000),
     statusCode |-> Num(599),
     isUp |-> Bool(FALSE),
     errorRate |-> Num(1),
     errorDetail |-> Str("Check-Host node did not return result for "
                            \o StringOf(method) \o " within timeout.")]

\* STEP 3: const [isUpRaw, latencySeconds, message, statusCodeRaw] = checkResult
NormalizedPayload(b, result) ==
    LET isUpRaw == At(result, 0)
        latencySeconds == At(result, 1)
        message == At(result, 2)
        statusCodeRaw == At(result, 3)
        isUp == StrictEquals(isUpRaw, Num(1))
        latencyMs == MathRound(Times(Or(latencySeconds, Num(0)), Num(1000)))
        statusCode == ParseInt(Or(statusCodeRaw, Str("0")))
        errorRate == IF isUp THEN Num(0) ELSE Num(1)
    IN  IF b = "server.js"
        THEN [latency |-> latencyMs, statusCode |-> statusCode, isUp |-> Bool(isUp),
              errorRate |-> errorRate, message |-> message]
        ELSE [latency |-> latencyMs, statusCode |-> statusCode, isUp |-> Bool(isUp),
              message |-> message]

\* Mutant of IsTimeoutError: ETIMEDOUT is forgotten.
IsTimeoutError_abortedOnly(error) == StrictEquals(error.code, Str("ECONNABORTED"))

\* error.code === 'ECONNABORTED' || error.code === 'ETIMEDOUT'
IsTimeoutError(error) ==
    StrictEquals(error.code, Str("ECONNABORTED")) \/ StrictEquals(error.code, Str("ETIMEDOUT"))

\* The catch block's payload.
\* Mutant of CaughtPayload: the payload of the catch block also reports the
\* target as down.
CaughtPayload_withIsUp(method, error) ==
    [isBackendError |-> Bool(TRUE),
     errorDetail |-> Str("Backend failed to connect to Check-Host: "
                            \o StringOf(error.message)),
     statusCode |-> Num(0),
     isUp |-> Bool(FALSE),
     latency |-> Num(0)]

CaughtPayload(method, error) ==
    [isBackendError |-> Bool(TRUE),
     errorDetail |->
        Str(IF IsTimeoutError(error)
            THEN "Backend Timeout when calling Check-Host API for " \o StringOf(method) \o "."
            ELSE "Backend failed to connect to Check-Host: " \o StringOf(error.message)),
     statusCode |-> Num(0)]

(***************************************************************************)
(* State.  Every variable but build is a function of the request: the      *)
(* handler keeps all its state in locals of one invocation.                *)
(*   pc            where the invocation is suspended: "none" (no such      *)
(*                 request in this run), "idle" (not yet received),        *)
(*                 "submit", "initialDelay", "poll", "attemptDelay"        *)
(*                 (awaiting that call or delay), "done" (returned)        *)
(*   body          req.body                                                *)
(*   apiEndpoint, request_id, checkResult, attempt   the handler's locals  *)
(*   res           the responses sent, in order: [status, body]            *)
(*   calls         the outbound calls issued, in order: [kind, url]        *)
(*   delays        the delays awaited, in order (ms)                       *)
(*   startResponse, lastPoll   what the submission call and the latest     *)
(*                 poll call returned or threw                             *)
(*   firstAvailable   the first poll response that held a record for the   *)
(*                 fixed node: [at, record], at = 0 while there is none    *)
(***************************************************************************)
VARIABLES build, pc, body, apiEndpoint, request_id, checkResult, attempt,
          res, calls, delays, startResponse, lastPoll, firstAvailable

(***************************************************************************)
(* The state of the browser shell that the build of src/unnamed/part_000   *)
(* serves: the globals of its script and what it shows.                    *)
(*   page             the part displayed: "input" (urlInputPage) or        *)
(*                    "dashboard" (mainDashboard)                          *)
(*   triageSection    style.display of the triage panel: "" as loaded,     *)
(*                    "block", "none"                                      *)
(*   testTimer        "unset" (undefined), "running" (an interval that     *)
(*                    fires), "cleared" (a handle of a cleared interval)   *)
(*   isMonitoringPaused, monitoredTarget, errorRateHistory   the globals   *)
(*   chartLabels, chartData   chartInstance.data.labels and                *)
(*                    chartInstance.data.datasets[0].data                  *)
(*   inFlight         the invocations of fetchRealData that await their    *)
(*                    response: [fresh, stale], stale counting those sent  *)
(*                    before the latest resetApp                           *)
(***************************************************************************)
VARIABLES page, triageSection, testTimer, isMonitoringPaused, monitoredTarget,
          errorRateHistory, chartLabels, chartData, inFlight

shell == <<page, triageSection, testTimer, isMonitoringPaused, monitoredTarget,
           errorRateHistory, chartLabels, chartData, inFlight>>

relay == <<build, pc, body, apiEndpoint, request_id, checkResult, attempt,
           res, calls, delays, startResponse, lastPoll, firstAvailable>>

vars == <<relay, shell>>

Nothing == [kind |-> "none"]
Returned(data) == [kind |-> "data", data |-> data]
Threw(error) == [kind |-> "error", error |-> error]

PollCalls(r) == SelectSeq(calls[r], LAMBDA c : c.kind = "poll")
SubmitCalls(r) == SelectSeq(calls[r], LAMBDA c : c.kind = "submit")

\* The observer's reading of a poll response: the entry of the fixed node
\* exists and its first element is present.
RecordPresent(data) ==
    /\ IsObj(data)
    /\ DEFAULT_NODE_ID \in DOMAIN data.obj
    /\ IsArr(data.obj[DEFAULT_NODE_ID])
    /\ Len(data.obj[DEFAULT_NODE_ID].arr) >= 1
    /\ ~IsNullish(data.obj[DEFAULT_NODE_ID].arr[1])

\* The shell as the page has loaded it: the splash screen has given way to
\* the input page, the chart is created empty, nothing is monitored.
Loaded ==
    /\ page = "input"
    /\ triageSection = ""
    /\ testTimer = "unset"
    /\ isMonitoringPaused = FALSE
    /\ monitoredTarget = Null
    /\ errorRateHistory = <<>>
    /\ chartLabels = <<>>
    /\ chartData = <<>>
    /\ inFlight = [fresh |-> 0, stale |-> 0]

InitFor(started) ==
    /\ build \in Builds
    /\ pc = [r \in Reqs |-> IF r \in started THEN "idle" ELSE "none"]
    /\ body = [r \in Reqs |-> [url |-> Undefined, method |-> Undefined]]
    /\ apiEndpoint = [r \in Reqs |-> Undefined]
    /\ request_id = [r \in Reqs |-> Null]
    /\ checkResult = [r \in Reqs |-> Null]
    /\ attempt = [r \in Reqs |-> 0]
    /\ res = [r \in Reqs |-> <<>>]
    /\ calls = [r \in Reqs |-> <<>>]
    /\ delays = [r \in Reqs |-> <<>>]
    /\ startResponse = [r \in Reqs |-> Nothing]
    /\ lastPoll = [r \in Reqs |-> Nothing]
    /\ firstAvailable = [r \in Reqs |-> [at |-> 0, record |-> Null]]
    /\ Loaded

\* One request reaches the server.
Init == InitFor({"r1"})

\* res.status(status).json(payload), and the handler returns.
Respond(r, status, payload) ==
    /\ res' = [res EXCEPT ![r] = Append(@, [status |-> status, body |-> Json(payload)])]
    /\ pc' = [pc EXCEPT ![r] = "done"]

\* Mutant of Caught: the catch block rethrows and sends nothing.
Caught_rethrows(r, error) ==
    /\ res' = res
    /\ pc' = [pc EXCEPT ![r] = "done"]

\* The catch block.
Caught(r, error) == Respond(r, 200, CaughtPayload(body[r].method, error))

\* Mutant of Call: the call fans out, two requests issued at once.
Call_fanOut(r, kind, url, at) ==
    /\ calls' = [calls EXCEPT ![r] = @ \o <<[kind |-> kind, url |-> url],
                                           [kind |-> kind, url |-> url]>>]
    /\ pc' = [pc EXCEPT ![r] = at]

\* axios.get(url, ...) is called and awaited.
Call(r, kind, url, at) ==
    /\ calls' = [calls EXCEPT ![r] = Append(@, [kind |-> kind, url |-> url])]
    /\ pc' = [pc EXCEPT ![r] = at]

\* Mutant of Delay: the promise of delay(ms) is never resolved.
Delay_neverElapses(r, ms, at) ==
    /\ delays' = [delays EXCEPT ![r] = Append(@, ms)]
    /\ pc' = [pc EXCEPT ![r] = "stuck"]

\* await delay(ms)
Delay(r, ms, at) ==
    /\ delays' = [delays EXCEPT ![r] = Append(@, ms)]
    /\ pc' = [pc EXCEPT ![r] = at]

\* The handler from its entry to the await of the submission call.
Receive(r, b) ==
    /\ pc[r] = "idle"
    /\ body' = [body EXCEPT ![r] = b]
    /\ IF MissingField(b.url, b.method)
       THEN /\ Respond(r, 400, MissingFieldPayload)
            /\ UNCHANGED <<apiEndpoint, calls>>
       ELSE IF ~Truthy(EndpointOf(build, b.method))
       THEN /\ Respond(r, 400, UnsupportedPayload(b.method))
            /\ UNCHANGED <<apiEndpoint, calls>>
       ELSE /\ apiEndpoint' = [apiEndpoint EXCEPT ![r] = EndpointOf(build, b.method)]
            /\ Call(r, "submit", CheckUrl(EndpointOf(build, b.method), b.url), "submit")
            /\ UNCHANGED res
    /\ UNCHANGED <<shell, build, request_id, checkResult, attempt, delays, startResponse,
                   lastPoll, firstAvailable>>

\* The submission call returns: from the test of the acknowledgement to a
\* response or to the await of the initial delay.
SubmitReturns(r, data) ==
    /\ pc[r] = "submit"
    /\ startResponse' = [startResponse EXCEPT ![r] = Returned(data)]
    /\ IF IsNullish(data)
       THEN /\ Caught(r, TypeError("Cannot read properties of null (reading 'ok')"))
            /\ UNCHANGED <<request_id, delays>>
       ELSE IF ~Acknowledged(data)
       THEN /\ IF IsImmediateEndpoint(apiEndpoint[r])
               THEN Respond(r, 200, InitialResultPayload(build, body[r].method, data))
               ELSE Respond(r, 200, RejectedPayload(build, body[r].method, data))
            /\ UNCHANGED <<request_id, delays>>
       ELSE /\ request_id' = [request_id EXCEPT ![r] = Get(data, "request_id")]
            /\ Delay(r, INITIAL_DELAY_MS, "initialDelay")
            /\ UNCHANGED res
    /\ UNCHANGED <<shell, build, body, apiEndpoint, checkResult, attempt, calls, lastPoll,
                   firstAvailable>>

\* The submission call throws.
SubmitThrows(r, error) ==
    /\ pc[r] = "submit"
    /\ startResponse' = [startResponse EXCEPT ![r] = Threw(error)]
    /\ Caught(r, error)
    /\ UNCHANGED <<shell, build, body, apiEndpoint, request_id, checkResult, attempt, calls,
                   delays, lastPoll, firstAvailable>>

\* Mutant of AfterLoop: the timeout outcome is sent without return, STEP 3
\* destructures the missing result, and the catch block responds again.
AfterLoop_fallsThrough(r, result) ==
    IF ~Truthy(result)
    THEN /\ res' = [res EXCEPT ![r] =
                       @ \o <<[status |-> 200,
                               body |-> Json(ExhaustedPayload(body[r].method))],
                              [status |-> 200,
                               body |-> Json(CaughtPayload(body[r].method,
                                               TypeError("checkResult is not iterable")))]>>]
         /\ pc' = [pc EXCEPT ![r] = "done"]
    ELSE IF ~IsIterable(result) THEN Caught(r, TypeError("checkResult is not iterable"))
    ELSE Respond(r, 200, NormalizedPayload(build, result))

\* The code after the loop: the timeout outcome, or STEP 3.
AfterLoop(r, result) ==
    IF ~Truthy(result) THEN Respond(r, 200, ExhaustedPayload(body[r].method))
    ELSE IF ~IsIterable(result) THEN Caught(r, TypeError("checkResult is not iterable"))
    ELSE Respond(r, 200, NormalizedPayload(build, result))

\* The loop's test and, when it holds, the poll call of the iteration.
LoopTop(r) ==
    IF LoopContinues(checkResult[r], attempt[r])
    THEN /\ Call(r, "poll", ResultUrl(request_id[r]), "poll")
         /\ UNCHANGED res
    ELSE /\ AfterLoop(r, checkResult[r])
         /\ UNCHANGED calls

\* The initial delay elapses: the loop is entered.
InitialDelayElapsed(r) ==
    /\ pc[r] = "initialDelay"
    /\ LoopTop(r)
    /\ UNCHANGED <<shell, build, body, apiEndpoint, request_id, checkResult, attempt, delays,
                   startResponse, lastPoll, firstAvailable>>

\* Mutant of PollReturns: the attempt counter is declared outside the handler
\* and all invocations count on it.
PollReturns_sharedAttempt(r, data) ==
    /\ pc[r] = "poll"
    /\ lastPoll' = [lastPoll EXCEPT ![r] = Returned(data)]
    /\ firstAvailable' =
          IF firstAvailable[r].at = 0 /\ RecordPresent(data)
          THEN [firstAvailable EXCEPT ![r] =
                   [at |-> Len(PollCalls(r)), record |-> data.obj[DEFAULT_NODE_ID].arr[1]]]
          ELSE firstAvailable
    /\ IF IsNullish(data)
       THEN /\ Caught(r, TypeError("Cannot read properties of null"))
            /\ UNCHANGED <<checkResult, attempt, delays>>
       ELSE IF HasResult(NodeResult(data))
       THEN /\ checkResult' = [checkResult EXCEPT ![r] = At(NodeResult(data), 0)]
            /\ AfterLoop(r, At(NodeResult(data), 0))
            /\ UNCHANGED <<attempt, delays>>
       ELSE /\ attempt' = [q \in Reqs |-> attempt[r] + 1]
            /\ Delay(r, ATTEMPT_DELAY_MS, "attemptDelay")
            /\ UNCHANGED <<checkResult, res>>
    /\ UNCHANGED <<shell, build, body, apiEndpoint, request_id, calls, startResponse>>

\* A poll call returns: a result ends the loop and is answered, no result
\* counts the attempt and awaits the delay between attempts.
PollReturns(r, data) ==
    /\ pc[r] = "poll"
    /\ lastPoll' = [lastPoll EXCEPT ![r] = Returned(data)]
    /\ firstAvailable' =
          IF firstAvailable[r].at = 0 /\ RecordPresent(data)
          THEN [firstAvailable EXCEPT ![r] =
                   [at |-> Len(PollCalls(r)), record |-> data.obj[DEFAULT_NODE_ID].arr[1]]]
          ELSE firstAvailable
    /\ IF IsNullish(data)
       THEN /\ Caught(r, TypeError("Cannot read properties of null"))
            /\ UNCHANGED <<checkResult, attempt, delays>>
       ELSE IF HasResult(NodeResult(data))
       THEN /\ checkResult' = [checkResult EXCEPT ![r] = At(NodeResult(data), 0)]
            /\ AfterLoop(r, At(NodeResult(data), 0))
            /\ UNCHANGED <<attempt, delays>>
       ELSE /\ attempt' = [attempt EXCEPT ![r] = @ + 1]
            /\ Delay(r, ATTEMPT_DELAY_MS, "attemptDelay")
            /\ UNCHANGED <<checkResult, res>>
    /\ UNCHANGED <<shell, build, body, apiEndpoint, request_id, calls, startResponse>>

\* Mutant of PollThrows: the exception is taken as one more attempt without
\* a result, and the loop goes on.
PollThrows_retries(r, error) ==
    /\ pc[r] = "poll"
    /\ lastPoll' = [lastPoll EXCEPT ![r] = Threw(error)]
    /\ attempt' = [attempt EXCEPT ![r] = @ + 1]
    /\ Delay(r, ATTEMPT_DELAY_MS, "attemptDelay")
    /\ UNCHANGED <<shell, build, body, apiEndpoint, request_id, checkResult, res, calls,
                   startResponse, firstAvailable>>

\* A poll call throws.
PollThrows(r, error) ==
    /\ pc[r] = "poll"
    /\ lastPoll' = [lastPoll EXCEPT ![r] = Threw(error)]
    /\ Caught(r, error)
    /\ UNCHANGED <<shell, build, body, apiEndpoint, request_id, checkResult, attempt, calls,
                   delays, startResponse, firstAvailable>>

\* The delay between attempts elapses: the loop's test again.
AttemptDelayElapsed(r) ==
    /\ pc[r] = "attemptDelay"
    /\ LoopTop(r)
    /\ UNCHANGED <<shell, build, body, apiEndpoint, request_id, checkResult, attempt, delays,
                   startResponse, lastPoll, firstAvailable>>

Next ==
    \E r \in Reqs :
        \/ \E b \in Bodies : Receive(r, b)
        \/ \E data \in StartData : SubmitReturns(r, data)
        \/ \E error \in AxiosErrors(SUBMIT_TIMEOUT_MS) : SubmitThrows(r, error)
        \/ InitialDelayElapsed(r)
        \/ \E data \in PollData : PollReturns(r, data)
        \/ \E error \in AxiosErrors(POLL_TIMEOUT_MS) : PollThrows(r, error)
        \/ AttemptDelayElapsed(r)

Spec == Init /\ [][Next]_vars

(***************************************************************************)
(* Progress.  An awaited axios.get settles: it resolves, or it rejects, at *)
(* the latest when its timeout (8000 ms, 5000 ms) runs out.  The timer of  *)
(* delay(ms) fires.  The code between two awaits runs to the next await.   *)
(***************************************************************************)
CallCompletes(r) ==
    \/ \E data \in StartData : SubmitReturns(r, data)
    \/ \E error \in AxiosErrors(SUBMIT_TIMEOUT_MS) : SubmitThrows(r, error)
    \/ \E data \in PollData : PollReturns(r, data)
    \/ \E error \in AxiosErrors(POLL_TIMEOUT_MS) : PollThrows(r, error)

DelayElapses(r) == InitialDelayElapsed(r) \/ AttemptDelayElapsed(r)

Fairness == \A r \in Reqs : WF_vars(CallCompletes(r)) /\ WF_vars(DelayElapses(r))

SpecLive == Init /\ [][Next]_vars /\ Fairness

(***************************************************************************)
(* Two requests served at the same time.  Node runs one invocation of the  *)
(* handler up to its next await and may then run the other, so the steps   *)
(* of the two interleave in any order.  The inputs are a part of those of  *)
(* Spec: a body for a polled method, one for an immediate method and one   *)
(* without method; two acknowledgements with different ids, a rejection    *)
(* and a null body; polls that are not ready or carry one of two results.  *)
(***************************************************************************)
ConcBodies ==
    { [url |-> Str("example.com"), method |-> Str("http")],
      [url |-> Str("example.com"), method |-> Str("dns")],
      [url |-> Str("example.com"), method |-> Undefined] }

ConcStartData ==
    { Obj([ok |-> Num(1), request_id |-> Str("abc123"), message |-> Undefined]),
      Obj([ok |-> Num(1), request_id |-> Str("def456"), message |-> Undefined]),
      Obj([ok |-> Num(0), request_id |-> Undefined, message |-> Str("limit exceeded")]),
      Null }

ConcPollData ==
    { Obj(<<>>),
      Obj([n \in {DEFAULT_NODE_ID} |->
              Arr(<<Arr(<<Num(1), Frac(7, 20), Str("OK"), Str("200")>>)>>)]),
      Obj([n \in {DEFAULT_NODE_ID} |->
              Arr(<<Arr(<<Num(0), Num(0), Str("Host unreachable"), Str("0")>>)>>)]),
      Null }

ConcErrors(timeout) == {e \in AxiosErrors(timeout) : e.code = Str("ECONNABORTED")}

InitConc == InitFor(Reqs)

NextConc ==
    \E r \in Reqs :
        \/ \E b \in ConcBodies : Receive(r, b)
        \/ \E data \in ConcStartData : SubmitReturns(r, data)
        \/ \E error \in ConcErrors(SUBMIT_TIMEOUT_MS) : SubmitThrows(r, error)
        \/ InitialDelayElapsed(r)
        \/ \E data \in ConcPollData : PollReturns(r, data)
        \/ \E error \in ConcErrors(POLL_TIMEOUT_MS) : PollThrows(r, error)
        \/ AttemptDelayElapsed(r)

SpecConc == InitConc /\ [][NextConc]_vars

(***************************************************************************)
(* The browser shell (the script of the page in src/unnamed/part_000).     *)
(* The user submits the form, and on the dashboard clicks restart or the   *)
(* button of the triage panel; the interval timer fires; a check sent to   *)
(* /api/check settles.  fetchRealData is async: it is suspended at its     *)
(* await of fetch while the other events go on, and the interval can send  *)
(* a further check before the earlier one has settled.                     *)
(***************************************************************************)
MAX_DATA_POINTS == 60
UPDATE_INTERVAL_MS == 5000

\* Bounds: the checks awaiting their response at one time, and the entries
\* of errorRateHistory that report the target down.
MaxInFlight == 2
MaxDown == 1

\* What the form can hold: a url that the input of type url accepts, and a
\* method of the select (whois is disabled).
ShellUrls == {"https://example.com"}
ShellMethods == {"http", "ping", "tcp", "dns"}

\* toLocaleTimeString of the moment a point is charted.
TimeLabels == {"10:15:30"}

\* How a check settles: fetch rejects, or resolves with a response of the
\* relay: a status that is not ok, or 200 with one of the relay's payloads.
FetchSettlements ==
    { [kind |-> "rejected"],
      [kind |-> "response", ok |-> FALSE, data |-> Obj(Json(MissingFieldPayload))] }
    \cup
    { [kind |-> "response", ok |-> TRUE, data |-> Obj(Json(d))] :
        d \in { CaughtPayload(Str("http"), TypeError("connect ECONNREFUSED")) }
              \cup { ExhaustedPayload(Str("http")) }
              \cup { NormalizedPayload("part_000", t) :
                       t \in { Arr(<<Num(1), Frac(7, 20), Str("OK"), Str("200")>>),
                               Arr(<<Num(0), Num(0), Str("Host unreachable"), Str("0")>>) } } }

\* clearInterval(testTimer)
Cleared(timer) == IF timer = "running" THEN "cleared" ELSE timer

CanSend == inFlight.fresh + inFlight.stale < MaxInFlight

\* fetchRealData up to its await of fetch, called with the given values of
\* monitoredTarget and isMonitoringPaused.
SendCheck(target, paused) ==
    IF target = Null \/ paused
    THEN UNCHANGED inFlight
    ELSE inFlight' = [inFlight EXCEPT !.fresh = @ + 1]

\* startMonitoring(interval), called with the given values of the globals.
startMonitoring(target, paused) ==
    IF paused
    THEN /\ testTimer' = Cleared(testTimer)
         /\ UNCHANGED inFlight
    ELSE /\ SendCheck(target, paused)
         /\ testTimer' = "running"

\* pauseMonitoring(issue, action)
pauseMonitoring ==
    IF isMonitoringPaused
    THEN UNCHANGED <<testTimer, isMonitoringPaused, triageSection>>
    ELSE /\ testTimer' = Cleared(testTimer)
         /\ isMonitoringPaused' = TRUE
         /\ triageSection' = "block"

\* Mutant of ShouldChart: the point is charted whether paused or not.
ShouldChart_always(paused) == TRUE

\* chartInstance && !isMonitoringPaused: the point is charted.
ShouldChart(paused) == ~paused

\* errorRateHistory.push(errorRate), and shift() beyond the limit.
PushErrorRate(history, errorRate) ==
    LET pushed == Append(history, errorRate)
    IN  IF Len(pushed) > MAX_DATA_POINTS THEN Tail(pushed) ELSE pushed

\* Mutant of updateChart: beyond the limit only the label list is shifted.
updateChart_shiftsLabelsOnly(uptimeValue, timeLabel) ==
    LET labels == Append(chartLabels, timeLabel)
        data == Append(chartData, uptimeValue)
    IN  IF Len(labels) > MAX_DATA_POINTS
        THEN chartLabels' = Tail(labels) /\ chartData' = data
        ELSE chartLabels' = labels /\ chartData' = data

\* updateChart(uptimeValue)
updateChart(uptimeValue, timeLabel) ==
    LET labels == Append(chartLabels, timeLabel)
        data == Append(chartData, uptimeValue)
    IN  IF Len(labels) > MAX_DATA_POINTS
        THEN chartLabels' = Tail(labels) /\ chartData' = Tail(data)
        ELSE chartLabels' = labels /\ chartData' = data

\* The entries of the history that report the target down.
Downs(history) == Len(SelectSeq(history, LAMBDA e : e = 1))

\* The form is submitted: the target is set, the dashboard shown, the chart
\* emptied and monitoring started.
FormSubmit(url, method) ==
    /\ page = "input"
    /\ CanSend
    /\ monitoredTarget' = [url |-> url, method |-> method, interval |-> UPDATE_INTERVAL_MS]
    /\ page' = "dashboard"
    /\ chartLabels' = <<>>
    /\ chartData' = <<>>
    /\ startMonitoring(monitoredTarget', isMonitoringPaused)
    /\ UNCHANGED <<relay, triageSection, isMonitoringPaused, errorRateHistory>>

\* RESTART / CHANGE URL is clicked: resetApp().
resetApp ==
    /\ page = "dashboard"
    /\ testTimer' = Cleared(testTimer)
    /\ monitoredTarget' = Null
    /\ errorRateHistory' = <<>>
    /\ isMonitoringPaused' = FALSE
    /\ triageSection' = "none"
    /\ chartLabels' = <<>>
    /\ chartData' = <<>>
    /\ page' = "input"
    /\ inFlight' = [fresh |-> 0, stale |-> inFlight.fresh + inFlight.stale]
    /\ UNCHANGED relay

\* The button of the triage panel is clicked: resumeMonitoring().  Without
\* a target, monitoredTarget.interval throws after the flag is lowered.
resumeMonitoring ==
    /\ page = "dashboard"
    /\ triageSection # "none"
    /\ isMonitoringPaused
    /\ CanSend
    /\ triageSection' = "none"
    /\ isMonitoringPaused' = FALSE
    /\ IF monitoredTarget = Null
       THEN UNCHANGED <<testTimer, inFlight>>
       ELSE startMonitoring(monitoredTarget, FALSE)
    /\ UNCHANGED <<relay, page, monitoredTarget, errorRateHistory, chartLabels, chartData>>

\* The interval fires: fetchRealData() up to its await.
TimerFires ==
    /\ testTimer = "running"
    /\ CanSend
    /\ SendCheck(monitoredTarget, isMonitoringPaused)
    /\ UNCHANGED <<relay, page, triageSection, testTimer, isMonitoringPaused,
                   monitoredTarget, errorRateHistory, chartLabels, chartData>>

\* A check settles: fetchRealData from its await to its end.  An exception
\* in the try block (fetch rejected, status not ok, monitoredTarget.method
\* read when the target is null) is caught and pauses; so does a payload
\* with isBackendError.  Otherwise the point is charted unless paused.
FetchSettles(age, settled, timeLabel) ==
    LET answered == settled.kind = "response" /\ settled.ok
        backendError == answered /\ Truthy(Get(settled.data, "isBackendError"))
        threw == ~answered \/ (~backendError /\ monitoredTarget = Null)
        isBackendIssue == backendError \/ threw
        errorRate == IF isBackendIssue THEN 1
                     ELSE IF Truthy(Get(settled.data, "isUp")) THEN 0 ELSE 1
        uptimePercent == (1 - errorRate) * 100
        pausedAfter == isMonitoringPaused \/ isBackendIssue
    IN  /\ inFlight[age] > 0
        /\ inFlight' = [inFlight EXCEPT ![age] = @ - 1]
        /\ IF isBackendIssue
           THEN pauseMonitoring
           ELSE UNCHANGED <<testTimer, isMonitoringPaused, triageSection>>
        /\ IF ShouldChart(pausedAfter)
           THEN /\ errorRate = 1 => Downs(errorRateHistory) < MaxDown
                /\ errorRateHistory' = PushErrorRate(errorRateHistory, errorRate)
                /\ updateChart(uptimePercent, timeLabel)
           ELSE UNCHANGED <<errorRateHistory, chartLabels, chartData>>
        /\ UNCHANGED <<relay, page, monitoredTarget>>

\* The page is served by the build of src/unnamed/part_000; no request of
\* the relay is followed.
InitShell == InitFor({}) /\ build = "part_000"

NextShell ==
    \/ \E url \in ShellUrls, method \in ShellMethods : FormSubmit(url, method)
    \/ resetApp
    \/ resumeMonitoring
    \/ TimerFires
    \/ \E age \in {"fresh", "stale"}, settled \in FetchSettlements, timeLabel \in TimeLabels :
          FetchSettles(age, settled, timeLabel)

SpecShell == InitShell /\ [][NextShell]_vars

(***************************************************************************)
(* The vocabulary of the properties.                                       *)
(***************************************************************************)
Done(r) == pc[r] = "done"
Received(r) == pc[r] \notin {"none", "idle"}

\* o.k, undefined when o has no property k.
Field(o, k) == IF k \in DOMAIN o THEN o[k] ELSE Undefined

\* The payload and the HTTP status of the (first) response of a request.
Outcome(r) == res[r][1].body
Status(r) == res[r][1].status

FlaggedBackendError(r) == Field(Outcome(r), "isBackendError") = Bool(TRUE)

StartsWith(s, prefix) == Len(s) >= Len(prefix) /\ SubSeq(s, 1, Len(prefix)) = prefix
After(s, prefix) == SubSeq(s, Len(prefix) + 1, Len(s))

MethodIn(r, names) == \E m \in names : body[r].method = Str(m)
PollableMethods == {"http", "ping", "tcp", "udp"}
ImmediateMethods == {"dns", "whois"}

\* The submission response carries ok = 1 and a non-empty request_id.
HasAcknowledgement(data) ==
    /\ IsObj(data)
    /\ "ok" \in DOMAIN data.obj /\ data.obj.ok = Num(1)
    /\ "request_id" \in DOMAIN data.obj
    /\ IsStr(data.obj.request_id) /\ data.obj.request_id.str # ""

\* The submission call returned a body (an object or a string, not null)
\* without the acknowledgement.
SubmissionUnacknowledged(r) ==
    /\ startResponse[r].kind = "data"
    /\ ~IsNull(startResponse[r].data)
    /\ ~HasAcknowledgement(startResponse[r].data)

\* The payload has one of the outcome shapes: the error shape, or a result
\* with isUp, latency and statusCode.
WellFormedOutcome(o) ==
    \/ /\ Field(o, "isBackendError") = Bool(TRUE)
       /\ IsStr(Field(o, "errorDetail"))
    \/ /\ IsBool(Field(o, "isUp"))
       /\ {"latency", "statusCode"} \subseteq DOMAIN o

(***************************************************************************)
(* C1.  A request whose body lacks url or method, or whose method is not a *)
(* key of the endpoint map, is answered with a validation error (status    *)
(* 400) and causes no outbound call.  Violated: a method that names a      *)
(* property the map inherits ("constructor") passes the lookup.            *)
(***************************************************************************)
C1_InvalidRejectedWithoutCall ==
    \A r \in Reqs :
        (/\ Received(r)
         /\ \/ IsUndefined(body[r].url)
            \/ IsUndefined(body[r].method)
            \/ StringOf(body[r].method) \notin DOMAIN METHOD_ENDPOINT_MAP(build))
        => /\ Done(r)
           /\ Len(res[r]) = 1
           /\ Status(r) = 400
           /\ calls[r] = <<>>

(***************************************************************************)
(* C2.  Every request that passed validation (its submission call was      *)
(* issued) and returned was answered exactly once, with status 200 and a   *)
(* well-formed outcome, whatever the upstream returned or threw.           *)
(***************************************************************************)
C2_ValidatedAlways200 ==
    \A r \in Reqs :
        (Done(r) /\ calls[r] # <<>>)
        => /\ Len(res[r]) = 1
           /\ Status(r) = 200
           /\ WellFormedOutcome(Outcome(r))

\* A poll call threw after two attempts without a result, and the request
\* was answered.
C2_Witness ==
    \E r \in Reqs :
        /\ Done(r)
        /\ lastPoll[r].kind = "error"
        /\ Len(PollCalls(r)) = 3
        /\ Status(r) = 200

(***************************************************************************)
(* C3.  A request with an unmapped method is rejected as one with a        *)
(* missing field is: status 400 and a payload {error: string} that does    *)
(* not carry isBackendError = true.  Violated: the payload is              *)
(* {isBackendError: true, errorDetail, statusCode: 0}.                     *)
(***************************************************************************)
C3_UnmappedRejectedAsMissing ==
    \A r \in Reqs :
        (/\ Done(r)
         /\ Truthy(body[r].url)
         /\ Truthy(body[r].method)
         /\ calls[r] = <<>>)
        => /\ Status(r) = 400
           /\ DOMAIN Outcome(r) = {"error"}
           /\ IsStr(Outcome(r).error)
           /\ ~FlaggedBackendError(r)

(***************************************************************************)
(* C4.  For a pollable method (http, ping, tcp, udp), a submission         *)
(* response without ok = 1 or without a non-empty request_id gives an      *)
(* outcome with isBackendError = true, no poll call, and no second         *)
(* submission call.                                                        *)
(***************************************************************************)
C4_PollableUnacknowledgedIsError ==
    \A r \in Reqs :
        (/\ MethodIn(r, PollableMethods)
         /\ startResponse[r].kind = "data"
         /\ ~HasAcknowledgement(startResponse[r].data))
        => /\ Done(r)
           /\ FlaggedBackendError(r)
           /\ Len(PollCalls(r)) = 0
           /\ Len(SubmitCalls(r)) = 1

\* ok = 1 without a request_id, for tcp.
C4_Witness ==
    \E r \in Reqs :
        /\ MethodIn(r, {"tcp"})
        /\ startResponse[r] = Returned(Obj([ok |-> Num(1), request_id |-> Undefined,
                                            message |-> Str("limit exceeded")]))
        /\ Done(r)
        /\ FlaggedBackendError(r)

(***************************************************************************)
(* C5.  For dns and whois, a submission response without the               *)
(* acknowledgement gives the outcome isUp = true, latency = 0,             *)
(* statusCode = 200, not flagged isBackendError, and no poll call.         *)
(***************************************************************************)
C5_ImmediateResult ==
    \A r \in Reqs :
        (MethodIn(r, ImmediateMethods) /\ SubmissionUnacknowledged(r))
        => /\ Done(r)
           /\ Status(r) = 200
           /\ Field(Outcome(r), "isUp") = Bool(TRUE)
           /\ Field(Outcome(r), "latency") = Num(0)
           /\ Field(Outcome(r), "statusCode") = Num(200)
           /\ "isBackendError" \notin DOMAIN Outcome(r)
           /\ Len(PollCalls(r)) = 0

\* whois answered ok = 0.
C5_Witness ==
    \E r \in Reqs :
        /\ MethodIn(r, {"whois"})
        /\ SubmissionUnacknowledged(r)
        /\ Get(startResponse[r].data, "ok") = Num(0)
        /\ Done(r)
        /\ Field(Outcome(r), "isUp") = Bool(TRUE)

(***************************************************************************)
(* C6 as stated.  In the dns/whois immediate result the outcome's message  *)
(* is the upstream message verbatim, an absent one included.  Violated:    *)
(* the message is prefixed, and an absent or empty one is replaced.        *)
(***************************************************************************)
C6_MessageVerbatim ==
    \A r \in Reqs :
        (MethodIn(r, ImmediateMethods) /\ SubmissionUnacknowledged(r) /\ Done(r))
        => Field(Outcome(r), "message") = Get(startResponse[r].data, "message")

(***************************************************************************)
(* C6 as amended.  In the dns/whois immediate result the outcome's message *)
(* is "Initial result for <method>: " followed by the upstream message     *)
(* when that is a non-empty string, and by the build's fixed default text  *)
(* when it is absent or empty.                                             *)
(***************************************************************************)
C6_MessagePrefixed ==
    \A r \in Reqs :
        (MethodIn(r, ImmediateMethods) /\ SubmissionUnacknowledged(r) /\ Done(r))
        => LET upstream == Get(startResponse[r].data, "message")
               message == Field(Outcome(r), "message")
               prefix == "Initial result for " \o body[r].method.str \o ": "
           IN  /\ IsStr(message)
               /\ StartsWith(message.str, prefix)
               /\ IF IsStr(upstream) /\ upstream.str # ""
                  THEN After(message.str, prefix) = upstream.str
                  ELSE After(message.str, prefix) =
                          (IF build = "server.js" THEN "Data received."
                           ELSE "No specific error message provided by Check-Host.")

\* dns, with an upstream message, and the outcome's message differs from it.
C6_Witness ==
    \E r \in Reqs :
        /\ MethodIn(r, {"dns"})
        /\ SubmissionUnacknowledged(r)
        /\ Done(r)
        /\ Get(startResponse[r].data, "message") = Str("limit exceeded")
        /\ Field(Outcome(r), "message") = Str("Initial result for dns: limit exceeded")

(***************************************************************************)
(* C7.  For dns and whois no poll call is ever issued, whatever the        *)
(* submission response is.  Violated: an acknowledged dns or whois         *)
(* submission is polled like any other.                                    *)
(***************************************************************************)
C7_ImmediateMethodsNeverPoll ==
    \A r \in Reqs : MethodIn(r, ImmediateMethods) => Len(PollCalls(r)) = 0

(***************************************************************************)
(* C8.  If the submission is acknowledged and no poll response holds a     *)
(* record for the fixed node, then exactly 6 poll calls are issued and the *)
(* outcome is isUp = false, statusCode = 599, latency = 6000, with         *)
(* isBackendError not set.  (Poll responses are bodies, not null, and none *)
(* throws.)                                                                *)
(***************************************************************************)
C8_ExhaustionAfterSixPolls ==
    \A r \in Reqs :
        (/\ Done(r)
         /\ lastPoll[r].kind = "data"
         /\ ~IsNull(lastPoll[r].data)
         /\ firstAvailable[r].at = 0)
        => /\ Len(PollCalls(r)) = 6
           /\ Status(r) = 200
           /\ Field(Outcome(r), "isUp") = Bool(FALSE)
           /\ Field(Outcome(r), "statusCode") = Num(599)
           /\ Field(Outcome(r), "latency") = Num(6000)
           /\ "isBackendError" \notin DOMAIN Outcome(r)

\* The sixth poll found only another node's record.
C8_Witness ==
    \E r \in Reqs :
        /\ Done(r)
        /\ firstAvailable[r].at = 0
        /\ lastPoll[r].kind = "data"
        /\ IsObj(lastPoll[r].data)
        /\ OTHER_NODE_ID \in DOMAIN lastPoll[r].data.obj
        /\ Field(Outcome(r), "statusCode") = Num(599)

(***************************************************************************)
(* C9.  Polling stops at the first poll response that holds a record for   *)
(* the fixed node: if that is the k-th, the request has returned with      *)
(* exactly k poll calls; the handler's result is that record and no other  *)
(* (a record of another node is never taken); and when the record is a     *)
(* tuple the outcome's isUp and message are those of the tuple.            *)
(***************************************************************************)
C9_StopsAtFirstAvailable ==
    \A r \in Reqs :
        /\ firstAvailable[r].at # 0
           => /\ Done(r)
              /\ Len(PollCalls(r)) = firstAvailable[r].at
              /\ checkResult[r] = firstAvailable[r].record
              /\ IsArr(firstAvailable[r].record)
                 => /\ Field(Outcome(r), "isUp")
                          = Bool(At(firstAvailable[r].record, 0) = Num(1))
                    /\ Field(Outcome(r), "message") = At(firstAvailable[r].record, 2)
        /\ firstAvailable[r].at = 0 => checkResult[r] = Null

\* The record came with the third poll.
C9_Witness ==
    \E r \in Reqs :
        /\ Done(r)
        /\ firstAvailable[r].at = 3
        /\ Len(PollCalls(r)) = 3
        /\ Field(Outcome(r), "isUp") = Bool(TRUE)
        /\ Field(Outcome(r), "latency") = Num(350)

(***************************************************************************)
(* C10.  If the submission call throws an error whose code is ECONNABORTED *)
(* or ETIMEDOUT, the outcome has isBackendError = true and an errorDetail  *)
(* that names a timeout, and no poll call is issued.                       *)
(***************************************************************************)
C10_SubmissionTimeout ==
    \A r \in Reqs :
        (/\ startResponse[r].kind = "error"
         /\ startResponse[r].error.code \in {Str("ECONNABORTED"), Str("ETIMEDOUT")})
        => /\ Done(r)
           /\ Status(r) = 200
           /\ FlaggedBackendError(r)
           /\ IsStr(Field(Outcome(r), "errorDetail"))
           /\ StartsWith(Field(Outcome(r), "errorDetail").str, "Backend Timeout")
           /\ Len(PollCalls(r)) = 0

\* The connection timed out (ETIMEDOUT).
C10_Witness ==
    \E r \in Reqs :
        /\ startResponse[r].kind = "error"
        /\ startResponse[r].error.code = Str("ETIMEDOUT")
        /\ Done(r)
        /\ FlaggedBackendError(r)

(***************************************************************************)
(* C11.  An exception thrown by a poll call, the j-th, ends the request at *)
(* once: it is answered (status 200) with isBackendError = true, and the   *)
(* throwing call is the last outbound call, j poll calls in all, also when *)
(* attempts remain.                                                        *)
(***************************************************************************)
C11_PollExceptionEndsRequest ==
    \A r \in Reqs :
        lastPoll[r].kind = "error"
        => /\ Done(r)
           /\ Len(res[r]) = 1
           /\ Status(r) = 200
           /\ FlaggedBackendError(r)
           /\ Len(PollCalls(r)) = attempt[r] + 1
           /\ calls[r][Len(calls[r])].kind = "poll"

\* The second poll call was refused; four attempts remained.
C11_Witness ==
    \E r \in Reqs :
        /\ lastPoll[r].kind = "error"
        /\ lastPoll[r].error.code = Str("ECONNREFUSED")
        /\ Len(PollCalls(r)) = 2
        /\ Done(r)
        /\ FlaggedBackendError(r)

\* The request was answered from a result tuple: a poll response held an
\* array as the first record of the fixed node, and STEP 3 normalized it.
FromTuple(r) ==
    /\ Done(r)
    /\ firstAvailable[r].at # 0
    /\ IsArr(firstAvailable[r].record)

\* The elements of that tuple, in order.
Tuple(r) == firstAvailable[r].record.arr

\* The tuple has an i-th element (counted from 1) that is not undefined.
HasElement(r, i) == i <= Len(Tuple(r)) /\ ~IsUndefined(Tuple(r)[i])

(***************************************************************************)
(* C12.  In an outcome normalized from a result tuple, isUp is true if and *)
(* only if the tuple's first element is the number 1; 0, 2, true, the      *)
(* string "1" and an absent element give isUp = false.                     *)
(***************************************************************************)
C12_IsUpIffOne ==
    \A r \in Reqs :
        FromTuple(r)
        => /\ IsBool(Field(Outcome(r), "isUp"))
           /\ Field(Outcome(r), "isUp").bool
                 <=> (HasElement(r, 1) /\ Tuple(r)[1] = [num |-> 1, den |-> 1])

\* The first element was the boolean true, and the outcome is down.
C12_Witness ==
    \E r \in Reqs :
        /\ FromTuple(r)
        /\ HasElement(r, 1)
        /\ Tuple(r)[1] = Bool(TRUE)
        /\ Field(Outcome(r), "isUp") = Bool(FALSE)

\* The tuple's fourth element is a string that does not begin (after white
\* space and a sign) with a digit: parseInt finds no number in it.
Unparseable(v) ==
    /\ IsStr(v)
    /\ LET s == v.str
           i == SkipSpaces(s, 1)
           j == IF i <= Len(s) /\ Char(s, i) \in {"-", "+"} THEN i + 1 ELSE i
       IN  ~(j <= Len(s) /\ IsDigit(Char(s, j)))

(***************************************************************************)
(* C13.  In an outcome normalized from a result tuple, statusCode is a     *)
(* number: the numeric parse of the tuple's fourth element ("200" gives    *)
(* 200), and 0 when that element is absent or cannot be parsed as a        *)
(* number.  Violated: a non-numeric string ("abc") gives NaN, which is     *)
(* sent as null.                                                           *)
(***************************************************************************)
C13_StatusCodeParsedOrZero ==
    \A r \in Reqs :
        FromTuple(r)
        => LET statusCode == Field(Outcome(r), "statusCode")
               absent == ~HasElement(r, 4) \/ IsNull(Tuple(r)[4])
           IN  /\ IsNum(statusCode)
               /\ absent => statusCode = Num(0)
               /\ (~absent /\ Unparseable(Tuple(r)[4])) => statusCode = Num(0)
               /\ (~absent /\ Tuple(r)[4] = Str("200")) => statusCode = Num(200)
               /\ (~absent /\ Tuple(r)[4] = Str("0")) => statusCode = Num(0)

(***************************************************************************)
(* C14.  In an outcome normalized from a result tuple whose second element *)
(* is a number or absent, latency is the integer nearest to                *)
(* latencySeconds * 1000 (a half rounds up), latencySeconds being that     *)
(* element, or 0 when it is absent; the tuple [1, 0.35, "OK", "200"] gives *)
(* isUp = true, latency = 350, statusCode = 200.                           *)
(***************************************************************************)
C14_LatencyRounded ==
    \A r \in Reqs :
        FromTuple(r)
        => LET absent == ~HasElement(r, 2) \/ IsNull(Tuple(r)[2])
               x == IF absent THEN Num(0) ELSE Tuple(r)[2]
               latency == Field(Outcome(r), "latency")
           IN  /\ IsNum(x)
                  => /\ IsNum(latency)
                     /\ latency.den = 1
                     /\ 2 * latency.num * x.den <= 2000 * x.num + x.den
                     /\ 2 * latency.num * x.den > 2000 * x.num - x.den
               /\ Tuple(r) = <<Num(1), Frac(7, 20), Str("OK"), Str("200")>>
                  => /\ Field(Outcome(r), "isUp") = Bool(TRUE)
                     /\ latency = Num(350)
                     /\ Field(Outcome(r), "statusCode") = Num(200)

\* 1.2345 s is 1234.5 ms, sent as 1235.
C14_Witness ==
    \E r \in Reqs :
        /\ FromTuple(r)
        /\ HasElement(r, 2)
        /\ Tuple(r)[2] = Frac(2469, 2000)
        /\ Field(Outcome(r), "latency") = Num(1235)

(***************************************************************************)
(* C15.  Every outcome that carries a latency carries a non-negative       *)
(* integer, whatever result tuple the upstream returned.  Violated: a      *)
(* negative second element gives a negative latency (-0.25 gives -250),    *)
(* and a non-numeric one gives NaN, sent as null.                          *)
(***************************************************************************)
C15_LatencyNonNegativeInteger ==
    \A r \in Reqs :
        (Done(r) /\ Len(res[r]) >= 1 /\ "latency" \in DOMAIN Outcome(r))
        => /\ IsNum(Outcome(r).latency)
           /\ Outcome(r).latency.den = 1
           /\ Outcome(r).latency.num >= 0

\* An outbound call of the request is outstanding: the handler awaits it.
Awaiting(r) == pc[r] \in {"submit", "poll"}

(***************************************************************************)
(* C16.  Per request the outbound calls are one submission call at most,   *)
(* first, then poll calls, 6 at most (7 calls in all); a step issues one   *)
(* call at most, and only when no call of the request is outstanding, so   *)
(* that a request never has two calls outstanding.                         *)
(***************************************************************************)
C16_OneCallAtATime ==
    [][\A r \in Reqs :
          /\ Len(calls'[r]) <= 7
          /\ \A i \in DOMAIN calls'[r] :
                calls'[r][i].kind = IF i = 1 THEN "submit" ELSE "poll"
          /\ Len(calls'[r]) >= Len(calls[r])
          /\ Len(calls'[r]) > Len(calls[r])
             => /\ Len(calls'[r]) = Len(calls[r]) + 1
                /\ ~Awaiting(r)
                /\ Awaiting(r)']_vars

\* All seven calls were made: the submission and six polls.
C16_Witness ==
    \E r \in Reqs :
        /\ Done(r)
        /\ Len(SubmitCalls(r)) = 1
        /\ Len(PollCalls(r)) = 6

Local(q) ==
    <<pc[q], body[q], apiEndpoint[q], request_id[q], checkResult[q], attempt[q],
      res[q], calls[q], delays[q], startResponse[q], lastPoll[q], firstAvailable[q]>>

\* What request r has done follows from its own body and from what the
\* upstream answered to r: its polls carry the id of its own submission,
\* their number is its own count of attempts, and its outcome is the found
\* result of its own polls or, after its own six polls, the timeout.
OwnRun(r) ==
    /\ \A i \in DOMAIN PollCalls(r) :
          /\ startResponse[r].kind = "data"
          /\ PollCalls(r)[i].url = ResultUrl(Get(startResponse[r].data, "request_id"))
    /\ attempt[r] <= Len(PollCalls(r))
    /\ Len(PollCalls(r)) <= attempt[r] + 1
    /\ (Done(r) /\ firstAvailable[r].at # 0 /\ IsArr(firstAvailable[r].record))
       => /\ Len(res[r]) = 1
          /\ Outcome(r) = Json(NormalizedPayload(build, firstAvailable[r].record))
          /\ Len(PollCalls(r)) = firstAvailable[r].at
          /\ attempt[r] = firstAvailable[r].at - 1
    /\ (Done(r) /\ firstAvailable[r].at = 0 /\ lastPoll[r].kind = "data"
                /\ ~IsNullish(lastPoll[r].data))
       => /\ Len(res[r]) = 1
          /\ Outcome(r) = Json(ExhaustedPayload(body[r].method))
          /\ Len(PollCalls(r)) = 6
          /\ attempt[r] = 6

(***************************************************************************)
(* C18.  Two requests served at the same time do not interfere: in every   *)
(* interleaving each step is a step of one request and leaves all that     *)
(* the other holds unchanged (attempt counter, request id, found result,   *)
(* calls, response), and each request's polls, their number and its        *)
(* outcome are those of its own run.                                       *)
(***************************************************************************)
C18_NoInterference ==
    /\ [](\A r \in Reqs : OwnRun(r))
    /\ [][\E r \in Reqs : \A q \in Reqs \ {r} : Local(q)' = Local(q)]_vars

\* One request has its result from its third poll while the other, with a
\* different id, has counted one attempt and awaits its second poll.
C18_Witness ==
    \E r \in Reqs : \E q \in Reqs \ {r} :
        /\ Done(r)
        /\ firstAvailable[r].at = 3
        /\ IsArr(firstAvailable[r].record)
        /\ pc[q] = "poll"
        /\ attempt[q] = 1
        /\ request_id[q] # request_id[r]

\* The poll loop of request r was entered and the request is answered.
LoopEnded(r) == Done(r) /\ Len(PollCalls(r)) >= 1

\* The loop ended with a result found for the fixed node.
EndedByResult(r) == firstAvailable[r].at = Len(PollCalls(r))

\* The loop ended with the six attempts used up.
EndedByExhaustion(r) ==
    /\ firstAvailable[r].at = 0
    /\ attempt[r] = 6
    /\ Len(PollCalls(r)) = 6
    /\ lastPoll[r].kind = "data"

\* The loop ended with an exception in an iteration: the poll call threw,
\* or its response had a body that cannot be read (null).
EndedByException(r) ==
    /\ firstAvailable[r].at = 0
    /\ \/ lastPoll[r].kind = "error"
       \/ lastPoll[r].kind = "data" /\ IsNullish(lastPoll[r].data)
    /\ Len(res[r]) = 1
    /\ FlaggedBackendError(r)

\* A received request is in the end answered, once.
Terminates(r) == Received(r) ~> (Done(r) /\ Len(res[r]) = 1)

(***************************************************************************)
(* C19 as stated.  Every request terminates (each call returning or        *)
(* throwing, each delay elapsing), and once the poll loop has started it   *)
(* ends only by a found result or by exhausting the 6 attempts.            *)
(* Violated: a poll call that throws ends the loop at once.                *)
(***************************************************************************)
C19_TerminatesByResultOrExhaustion ==
    /\ \A r \in Reqs : Terminates(r)
    /\ [](\A r \in Reqs : LoopEnded(r) => EndedByResult(r) \/ EndedByExhaustion(r))

(***************************************************************************)
(* C19, amended.  Every request terminates (each call returning or         *)
(* throwing, each delay elapsing), and once the poll loop has started it   *)
(* ends only by a found result, by exhausting the 6 attempts, or by an     *)
(* exception in an iteration, which is answered as a backend error.        *)
(***************************************************************************)
C19_Terminates ==
    /\ \A r \in Reqs : Terminates(r)
    /\ [](\A r \in Reqs :
             LoopEnded(r)
             => EndedByResult(r) \/ EndedByExhaustion(r) \/ EndedByException(r))

\* The longest run: six polls without a result, then the answer.
C19_Witness ==
    \E r \in Reqs :
        /\ LoopEnded(r)
        /\ EndedByExhaustion(r)
        /\ Len(res[r]) = 1
        /\ delays[r] = <<2500, 1500, 1500, 1500, 1500, 1500, 1500>>

\* The six methods of a CheckRequest.
SixMethods == {"http", "ping", "tcp", "udp", "dns", "whois"}

\* Request r passed validation and made its one submission call, to the
\* endpoint check-<m> with its url as host and the fixed node.
SubmittedTo(r, m) ==
    /\ Len(SubmitCalls(r)) = 1
    /\ calls[r][1].kind = "submit"
    /\ calls[r][1].url = CHECK_HOST_BASE_URL \o "/check-" \o m \o "?host="
                            \o body[r].url.str \o "&node=" \o DEFAULT_NODE_ID
    /\ \A i \in DOMAIN res[r] : res[r][i].status # 400

(***************************************************************************)
(* C20.  Each of the six methods http, ping, tcp, udp, dns and whois is    *)
(* accepted: a request with a non-empty url and that method passes         *)
(* validation and makes exactly one submission call, to the endpoint       *)
(* mapped to the method (check-http, ..., check-whois).                    *)
(* Violated: the map of src/unnamed/part_000 has no udp, and that build    *)
(* rejects a udp request with status 400 before any call.                  *)
(***************************************************************************)
C20_SixMethodsAccepted ==
    \A r \in Reqs : \A m \in SixMethods :
        (/\ Received(r)
         /\ IsStr(body[r].url)
         /\ body[r].url # Str("")
         /\ body[r].method = Str(m))
        => SubmittedTo(r, m)

\* The submission call of r returned ok = 1 and a non-empty request id.
AcknowledgedWithId(r) ==
    /\ startResponse[r].kind = "data"
    /\ IsObj(startResponse[r].data)
    /\ Field(startResponse[r].data.obj, "ok") = Num(1)
    /\ IsStr(Field(startResponse[r].data.obj, "request_id"))
    /\ Field(startResponse[r].data.obj, "request_id") # Str("")

(***************************************************************************)
(* C21.  Every poll call of a request comes after the request's submission *)
(* call returned ok = 1 with a non-empty request_id and is keyed by that   *)
(* request_id; the first poll call is issued only when the initial delay   *)
(* of 2500 ms, awaited after the submission response, has elapsed.         *)
(***************************************************************************)
C21_PollsAfterAcknowledgementAndDelay ==
    /\ [](\A r \in Reqs :
             Len(PollCalls(r)) >= 1
             => /\ AcknowledgedWithId(r)
                /\ \A i \in DOMAIN PollCalls(r) :
                      PollCalls(r)[i].url =
                         "https://check-host.net/check-result/"
                            \o startResponse[r].data.obj.request_id.str
                /\ Len(delays[r]) >= 1
                /\ delays[r][1] = 2500)
    /\ [][\A r \in Reqs :
             (Len(PollCalls(r)) = 0 /\ Len(PollCalls(r))' >= 1)
             => /\ pc[r] = "initialDelay"
                /\ startResponse[r].kind = "data"
                /\ delays[r] = <<2500>>]_vars

\* Polls were made for the id of the acknowledgement.
C21_Witness ==
    \E r \in Reqs :
        /\ Len(PollCalls(r)) = 2
        /\ AcknowledgedWithId(r)
        /\ request_id[r] = Str("def456")
        /\ PollCalls(r)[2].url = "https://check-host.net/check-result/def456"

\* The delays between attempts that request r has awaited.
AttemptDelays(r) == SelectSeq(delays[r], LAMBDA ms : ms = 1500)

(***************************************************************************)
(* C22.  The delay of 1500 ms is awaited only between two consecutive poll *)
(* attempts: an answered run of n poll attempts has awaited exactly n - 1  *)
(* such delays, so none after the sixth attempt without a result and none  *)
(* after an attempt with a result.                                         *)
(* Violated: the loop awaits delay(1500) after every attempt without a     *)
(* result, the sixth included, before its test ends it.                    *)
(***************************************************************************)
C22_DelaysOnlyBetweenAttempts ==
    \A r \in Reqs :
        (Done(r) /\ Len(PollCalls(r)) >= 1)
        => Len(AttemptDelays(r)) = Len(PollCalls(r)) - 1

\* The exception that the submission call or a poll call of r threw.
HasThrown(r) == startResponse[r].kind = "error" \/ lastPoll[r].kind = "error"
Thrown(r) ==
    IF startResponse[r].kind = "error" THEN startResponse[r].error ELSE lastPoll[r].error

(***************************************************************************)
(* C23.  When the submission call or a poll call throws, the outcome is    *)
(* {isBackendError: true, errorDetail, statusCode: 0} and nothing else (no *)
(* isUp, no latency); the errorDetail has the timeout wording if and only  *)
(* if the error's code is ECONNABORTED or ETIMEDOUT, and else names the    *)
(* error's message.                                                        *)
(***************************************************************************)
C23_CaughtOutcome ==
    \A r \in Reqs :
        HasThrown(r)
        => /\ Done(r)
           /\ Len(res[r]) = 1
           /\ Status(r) = 200
           /\ DOMAIN Outcome(r) = {"isBackendError", "errorDetail", "statusCode"}
           /\ Outcome(r).isBackendError = Bool(TRUE)
           /\ Outcome(r).statusCode = Num(0)
           /\ Outcome(r).errorDetail =
                 IF Thrown(r).code \in {Str("ECONNABORTED"), Str("ETIMEDOUT")}
                 THEN Str("Backend Timeout when calling Check-Host API for "
                             \o body[r].method.str \o ".")
                 ELSE Str("Backend failed to connect to Check-Host: "
                             \o Thrown(r).message.str)

\* A poll call was refused: the outcome names the error's message.
C23_Witness ==
    \E r \in Reqs :
        /\ lastPoll[r].kind = "error"
        /\ lastPoll[r].error.code = Str("ECONNREFUSED")
        /\ Len(res[r]) = 1
        /\ Outcome(r).errorDetail =
              Str("Backend failed to connect to Check-Host: connect ECONNREFUSED")

(***************************************************************************)
(* C24.  The handler sends exactly one response per request on every path  *)
(* (validation rejection, immediate result, upstream rejection, poll       *)
(* exhaustion, normalized result, caught exception): a request that has    *)
(* returned has one response, one that has not has none, and the step that *)
(* responds is the step that returns.                                      *)
(***************************************************************************)
C24_ExactlyOneResponse ==
    /\ [](\A r \in Reqs : Len(res[r]) = IF Done(r) THEN 1 ELSE 0)
    /\ [][\A r \in Reqs :
             res'[r] # res[r]
             => /\ res[r] = <<>>
                /\ Len(res'[r]) = 1
                /\ ~Done(r)
                /\ Done(r)']_vars

\* The path of poll exhaustion has sent its one response.
C24_Witness ==
    \E r \in Reqs :
        /\ Done(r)
        /\ attempt[r] = 6
        /\ res[r] = <<[status |-> 200, body |-> Json(ExhaustedPayload(body[r].method))]>>

\* The checks of the shell that await their response.
Pending == inFlight.fresh + inFlight.stale

(***************************************************************************)
(* C25.  While monitoring is paused (by a response with isBackendError or  *)
(* by a failed fetch) and until resumeMonitoring or resetApp lowers the    *)
(* flag, the shell sends no check and appends no point to the chart or to  *)
(* the history; a further pauseMonitoring while paused changes nothing.    *)
(***************************************************************************)
C25_PausedSendsAndChartsNothing ==
    [][(isMonitoringPaused /\ isMonitoringPaused')
       => /\ Pending' <= Pending
          /\ chartLabels' = chartLabels
          /\ chartData' = chartData
          /\ errorRateHistory' = errorRateHistory
          /\ testTimer' = testTimer
          /\ testTimer # "running"
          /\ triageSection' = triageSection]_vars

\* Monitoring is paused with points on the chart, and every check sent
\* before the pause has settled.
C25_Witness ==
    /\ isMonitoringPaused
    /\ page = "dashboard"
    /\ triageSection = "block"
    /\ Len(chartData) = 2
    /\ Pending = 0

(***************************************************************************)
(* C26.  After resetApp, a check that was sent before the reset and        *)
(* settles after it changes no monitoring state: isMonitoringPaused keeps  *)
(* its value, the timer is not touched and no point is appended; so the    *)
(* next form submission does send a check.                                 *)
(* Violated: fetchRealData resumes after the reset with monitoredTarget    *)
(* null; reading monitoredTarget.method throws in the try block, the catch *)
(* block calls pauseMonitoring, and with the flag raised startMonitoring   *)
(* of the next submission returns before sending.                          *)
(***************************************************************************)
C26_StaleResponseChangesNothing ==
    [][/\ inFlight'.stale < inFlight.stale
          => /\ isMonitoringPaused' = isMonitoringPaused
             /\ testTimer' = testTimer
             /\ chartLabels' = chartLabels
             /\ chartData' = chartData
             /\ errorRateHistory' = errorRateHistory
       /\ (page = "input" /\ page' = "dashboard")
          => inFlight'.fresh = inFlight.fresh + 1]_vars

\* list, holding 60 entries, takes one more: the oldest entry is dropped
\* and the others keep their order.
OldestDropped(list, after) ==
    (Len(list) = 60 /\ after # list /\ after # <<>>)
    => /\ Len(after) = 60
       /\ SubSeq(after, 1, 59) = Tail(list)

(***************************************************************************)
(* C27.  After any sequence of check responses, form submissions, pauses,  *)
(* resumes and resets, errorRateHistory holds at most 60 entries, the      *)
(* chart holds at most 60 points, its label list and its data list have    *)
(* the same length, and an entry added to a full list drops the oldest.    *)
(***************************************************************************)
C27_AtMostSixtyPoints ==
    /\ [](/\ Len(errorRateHistory) <= 60
          /\ Len(chartLabels) <= 60
          /\ Len(chartData) = Len(chartLabels))
    /\ [][/\ OldestDropped(errorRateHistory, errorRateHistory')
          /\ OldestDropped(chartLabels, chartLabels')
          /\ OldestDropped(chartData, chartData')]_vars

\* The lists are full, the oldest point being the one that reported the
\* target down, and a check is awaiting the response that will replace it.
C27_Witness ==
    /\ Len(errorRateHistory) = 60
    /\ Len(chartLabels) = 60
    /\ Len(chartData) = 60
    /\ errorRateHistory[1] = 1
    /\ chartData[1] = 0
    /\ chartData[60] = 100
    /\ Pending >= 1
    /\ ~isMonitoringPaused

====
